---- MODULE Spec2Model ----
(***************************************************************************)
(* Model of src/frontend/streamlit_app.py: the MedicalChatbotUI class that *)
(* keeps a chat session (session_id, messages, suggestions) in Streamlit's *)
(* session state and talks to the backend over POST /session and           *)
(* POST /chat.  A Streamlit script run is single-threaded: one widget      *)
(* callback runs at a time; its HTTP calls are the points where it waits.  *)
(***************************************************************************)
EXTENDS Integers, Sequences, FiniteSets, TLC

VARIABLES
    session_id,   \* st.session_state.session_id
    messages,     \* st.session_state.messages
    suggestions,  \* st.session_state.suggestions
    pc,           \* position of the running callback ("idle": none running)
    call,         \* the running (or last) callback and its argument
    requests,     \* HTTP requests issued by the running (or last) callback
    errors,       \* st.error notifications of the running (or last) callback
    fault,        \* exception that left the callback uncaught ("" if none)
    pre,          \* history: session state when the callback started
    csOut,        \* history: how create_session's request ended in this callback
    chatOut,      \* history: how the /chat request ended in this callback
    succ,         \* history: successful send_message calls since the log was empty
    clean,        \* history: the log holds nothing but those calls' entries
    prev          \* history: the callback before this one and how it ended

vars == <<session_id, messages, suggestions, pc, call, requests, errors, fault,
          pre, csOut, chatOut, succ, clean, prev>>

-----------------------------------------------------------------------------
(* Bounds of the model *)

\* send_message is not started once the log holds this many entries
MaxLog == 4

-----------------------------------------------------------------------------
(* Values *)

\* Python's None (a value no backend string equals)
None == "<None>"

\* session identifiers a 200 response of POST /session may carry; "" and
\* None (JSON null) are the falsy ones
SessionIds == {"s1", "s2"}
FalsyIds == {"", None}

\* truth value of a session id, as `not st.session_state.session_id` tests it
Truthy(v) == v # None /\ v # ""

\* texts typed in the form's text_input
FormTexts == {"", " ", "pain"}

\* quick_symptoms of render_input_area
quick_symptoms ==
    <<"Sharp stomach pain", "Nausea and vomiting", "Bloating and gas", "Burning sensation">>

\* symptom.lower()
Lower(s) ==
    CASE s = "Sharp stomach pain" -> "sharp stomach pain"
      [] s = "Nausea and vomiting" -> "nausea and vomiting"
      [] s = "Bloating and gas" -> "bloating and gas"
      [] s = "Burning sensation" -> "burning sensation"

\* f"I'm experiencing {symptom.lower()}"
QuickText(s) ==
    CASE Lower(s) = "sharp stomach pain" -> "I'm experiencing sharp stomach pain"
      [] Lower(s) = "nausea and vomiting" -> "I'm experiencing nausea and vomiting"
      [] Lower(s) = "bloating and gas" -> "I'm experiencing bloating and gas"
      [] Lower(s) = "burning sensation" -> "I'm experiencing burning sensation"

\* replies and suggestion lists a 200 response of POST /chat may carry
Replies == {"Tell me more", "See a doctor"}
SuggestionLists == {<< >>, <<"Since when?", "Any fever?">>}

\* status codes other than 200
ErrorStatuses == {404, 500}

\* exceptions requests.post may raise: ConnectionError, and one that is a
\* RequestException but no ConnectionError
TransportExceptions == {"ConnectionError", "ChunkedEncodingError"}

\* assistant messages of send_message's failure branches
GenericErrorMsg == "Sorry, I encountered an error. Please try again."
CannotConnectMsg == "I can't connect to my brain right now. Please check the server."

Msg(role, content) == [role |-> role, content |-> content]

-----------------------------------------------------------------------------
(* What the backend may answer *)

NoSessionBody == [json |-> FALSE, has_id |-> FALSE, session_id |-> None]

\* body of a 200 answer to POST /session: not JSON, JSON without the key,
\* or JSON with "session_id"
SessionBodies ==
    {NoSessionBody, [json |-> TRUE, has_id |-> FALSE, session_id |-> None]}
    \cup {[json |-> TRUE, has_id |-> TRUE, session_id |-> v] : v \in SessionIds \cup FalsyIds}

SessionResponses ==
    {[exc |-> e, status |-> 0, body |-> NoSessionBody] : e \in TransportExceptions}
    \cup {[exc |-> "", status |-> s, body |-> NoSessionBody] : s \in ErrorStatuses}
    \cup {[exc |-> "", status |-> 200, body |-> b] : b \in SessionBodies}

NoChatBody ==
    [json |-> FALSE, has_response |-> FALSE, response |-> "",
     has_suggestions |-> FALSE, suggestions |-> << >>]

\* body of a 200 answer to POST /chat
ChatBodies ==
    {NoChatBody}
    \cup {[json |-> TRUE, has_response |-> FALSE, response |-> "",
           has_suggestions |-> TRUE, suggestions |-> << >>]}
    \cup {[json |-> TRUE, has_response |-> TRUE, response |-> r,
           has_suggestions |-> FALSE, suggestions |-> << >>] : r \in Replies}
    \cup {[json |-> TRUE, has_response |-> TRUE, response |-> r,
           has_suggestions |-> TRUE, suggestions |-> s] : r \in Replies, s \in SuggestionLists}

ChatResponses ==
    {[exc |-> e, status |-> 0, body |-> NoChatBody] : e \in TransportExceptions}
    \cup {[exc |-> "", status |-> s, body |-> NoChatBody] : s \in ErrorStatuses}
    \cup {[exc |-> "", status |-> 200, body |-> b] : b \in ChatBodies}

-----------------------------------------------------------------------------
(* Exceptions and the except clauses of create_session and send_message *)

\* Handler with ConnectionError caught by the generic clause
Handler_GenericOnly(e) == "Exception"

\* Handler without the `except Exception` clauses
Handler_ConnectionOnly(e) == IF e = "ConnectionError" THEN "ConnectionError" ELSE ""

\* the except clause that catches exception e: `except
\* requests.exceptions.ConnectionError` first, then `except Exception`
\* ("" would mean no clause catches it)
Handler(e) == IF e = "ConnectionError" THEN "ConnectionError" ELSE "Exception"

\* the exception raised inside create_session's try block ("" if none):
\* by requests.post, or by response.json()["session_id"] on a 200
SessionRaised(resp) ==
    IF resp.exc # "" THEN resp.exc
    ELSE IF resp.status # 200 THEN ""
    ELSE IF ~resp.body.json THEN "JSONDecodeError"
    ELSE IF ~resp.body.has_id THEN "KeyError"
    ELSE ""

\* the exception raised inside send_message's try block ("" if none)
ChatRaised(resp) ==
    IF resp.exc # "" THEN resp.exc
    ELSE IF resp.status # 200 THEN ""
    ELSE IF ~resp.body.json THEN "JSONDecodeError"
    ELSE IF ~resp.body.has_response \/ ~resp.body.has_suggestions THEN "KeyError"
    ELSE ""

Err(kind, detail) == [kind |-> kind, detail |-> detail]

-----------------------------------------------------------------------------
(* create_session *)

\* CreateSessionState without the clearing of the previous chat
CreateSessionState_KeepsChat(s, resp) ==
    IF SessionRaised(resp) = "" /\ resp.status = 200
    THEN [s EXCEPT !.session_id = resp.body.session_id]
    ELSE s

\* CreateSessionState without the clearing of the suggestions
CreateSessionState_KeepsSuggestions(s, resp) ==
    IF SessionRaised(resp) = "" /\ resp.status = 200
    THEN [s EXCEPT !.session_id = resp.body.session_id, !.messages = << >>]
    ELSE s

\* CreateSessionState with the chat dropped whenever the creation fails
CreateSessionState_ClearsOnFailure(s, resp) ==
    IF SessionRaised(resp) = "" /\ resp.status = 200
    THEN [session_id |-> resp.body.session_id, messages |-> << >>, suggestions |-> << >>]
    ELSE [session_id |-> None, messages |-> << >>, suggestions |-> << >>]

\* session state after create_session received resp: a 200 whose body holds
\* "session_id" sets the id and clears the chat; every other path keeps s
CreateSessionState(s, resp) ==
    IF SessionRaised(resp) = "" /\ resp.status = 200
    THEN [session_id |-> resp.body.session_id, messages |-> << >>, suggestions |-> << >>]
    ELSE s

\* st.error calls of create_session on resp
CreateSessionErrors(resp) ==
    LET e == SessionRaised(resp) IN
    IF e = "" THEN
        IF resp.status = 200 THEN << >>
        ELSE <<Err("session_failed", "")>>
    ELSE IF Handler(e) = "ConnectionError" THEN <<Err("session_connection", "")>>
    ELSE IF Handler(e) = "Exception" THEN <<Err("session_unexpected", e)>>
    ELSE << >>

\* exception that leaves create_session ("" if none)
CreateSessionFault(resp) ==
    IF SessionRaised(resp) # "" /\ Handler(SessionRaised(resp)) = ""
    THEN SessionRaised(resp) ELSE ""

-----------------------------------------------------------------------------
(* send_message *)

\* AbortsAfterCreate with the test inverted
AbortsAfterCreate_Inverted(sid) == Truthy(sid)

\* AbortsAfterCreate without the return
AbortsAfterCreate_Never(sid) == FALSE

\* line 75: `if not st.session_state.session_id: return`
AbortsAfterCreate(sid) == ~Truthy(sid)

\* WithUserMessage with the message put first
WithUserMessage_Front(log, message) == <<Msg("user", message)>> \o log

\* the log after the user's message was added (line 79)
WithUserMessage(log, message) == Append(log, Msg("user", message))

\* ChatAppended without the message of the status branch
ChatAppended_SilentOnStatus(resp) ==
    IF resp.exc # "" THEN
        IF Handler(resp.exc) = "ConnectionError"
        THEN <<Msg("assistant", CannotConnectMsg)>> ELSE << >>
    ELSE IF resp.status = 200 THEN
        IF resp.body.json /\ resp.body.has_response
        THEN <<Msg("assistant", resp.body.response)>> ELSE << >>
    ELSE << >>

\* messages appended by send_message's try block and except clauses on resp
ChatAppended(resp) ==
    IF resp.exc # "" THEN
        IF Handler(resp.exc) = "ConnectionError"
        THEN <<Msg("assistant", CannotConnectMsg)>> ELSE << >>
    ELSE IF resp.status = 200 THEN
        IF resp.body.json /\ resp.body.has_response
        THEN <<Msg("assistant", resp.body.response)>> ELSE << >>
    ELSE <<Msg("assistant", GenericErrorMsg)>>

\* ChatSuggestions with the returned suggestions added to the old ones
ChatSuggestions_Extends(old, resp) ==
    IF ChatRaised(resp) = "" /\ resp.status = 200 THEN old \o resp.body.suggestions ELSE old

\* st.session_state.suggestions after send_message's try block on resp
ChatSuggestions(old, resp) ==
    IF ChatRaised(resp) = "" /\ resp.status = 200 THEN resp.body.suggestions ELSE old

\* st.error calls of send_message on resp
ChatErrors(resp) ==
    LET e == ChatRaised(resp) IN
    IF e = "" THEN
        IF resp.status = 200 THEN << >>
        ELSE <<Err("chat_status", ToString(resp.status))>>
    ELSE IF Handler(e) = "ConnectionError" THEN <<Err("chat_connection", "")>>
    ELSE IF Handler(e) = "Exception" THEN <<Err("chat_unexpected", e)>>
    ELSE << >>

\* exception that leaves send_message ("" if none)
ChatFault(resp) ==
    IF ChatRaised(resp) # "" /\ Handler(ChatRaised(resp)) = ""
    THEN ChatRaised(resp) ELSE ""

\* `submitted and user_input` of render_input_area
FormAccepts(user_input) == user_input # ""

-----------------------------------------------------------------------------
(* History *)

NotCalled == [exc |-> "<not called>", status |-> 0]

\* the exchange ended with HTTP 200 and a body holding both keys
ChatSucceeded(resp) == resp.exc = "" /\ resp.status = 200 /\ ChatRaised(resp) = ""

\* create_session's request ended with HTTP 200 and a body holding the key
CreateSucceeded(resp) == resp.exc = "" /\ resp.status = 200 /\ SessionRaised(resp) = ""

\* a callback ends: if it was a successful send_message on a clean log the
\* call joins succ; otherwise succ restarts when the log is empty
Finish(log, good) ==
    IF good /\ clean
    THEN /\ succ' = Append(succ, [message |-> call.message, reply |-> chatOut'.body.response])
         /\ clean' = TRUE
    ELSE /\ succ' = << >>
         /\ clean' = (log = << >>)

-----------------------------------------------------------------------------
(* The state machine *)

Init ==
    /\ session_id = None
    /\ messages = << >>
    /\ suggestions = << >>
    /\ pc = "idle"
    /\ call = [op |-> "none", message |-> ""]
    /\ requests = << >>
    /\ errors = << >>
    /\ fault = ""
    /\ pre = [session_id |-> None, messages |-> << >>, suggestions |-> << >>]
    /\ csOut = NotCalled
    /\ chatOut = NotCalled
    /\ succ = << >>
    /\ clean = TRUE
    /\ prev = [op |-> "none", created |-> FALSE, failed |-> FALSE]

\* a callback starts: the history of the previous one is dropped
Begin(op, message) ==
    /\ pc = "idle"
    /\ call' = [op |-> op, message |-> message]
    /\ pre' = [session_id |-> session_id, messages |-> messages, suggestions |-> suggestions]
    /\ errors' = << >>
    /\ fault' = ""
    /\ csOut' = NotCalled
    /\ chatOut' = NotCalled
    /\ prev' = [op |-> call.op,
                created |-> CreateSucceeded(csOut),
                failed |-> \/ (csOut # NotCalled /\ ~CreateSucceeded(csOut))
                           \/ (chatOut # NotCalled /\ ~ChatSucceeded(chatOut))]

\* requests.post(f"{API_BASE_URL}/session")
SessionRequest == [url |-> "/session", message |-> "", session_id |-> None]

\* requests.post(f"{API_BASE_URL}/chat", json=payload)
ChatRequest(message, sid) == [url |-> "/chat", message |-> message, session_id |-> sid]

\* send_message that calls create_session whether or not there is a session
send_message_AlwaysCreates(message) ==
    /\ Len(messages) + 2 <= MaxLog
    /\ Begin("send_message", message)
    /\ requests' = <<SessionRequest>>
    /\ pc' = "cs_wait"
    /\ UNCHANGED <<session_id, messages, suggestions, succ, clean>>

\* send_message(message) is entered: without a session it calls
\* create_session, which posts to /session
send_message(message) ==
    /\ Len(messages) + 2 <= MaxLog
    /\ Begin("send_message", message)
    /\ IF ~Truthy(session_id)
       THEN /\ requests' = <<SessionRequest>>
            /\ pc' = "cs_wait"
       ELSE /\ requests' = << >>
            /\ pc' = "sm_append"
    /\ UNCHANGED <<session_id, messages, suggestions, succ, clean>>

\* the form is submitted with user_input in the text field
FormSubmit ==
    \E user_input \in FormTexts :
        /\ FormAccepts(user_input)
        /\ send_message(user_input)

\* a suggested question's button is pressed
SuggestionClick ==
    /\ suggestions # << >>
    /\ \E i \in 1..Len(suggestions) : send_message(suggestions[i])

\* a quick symptom's button is pressed (shown when there are no suggestions)
QuickSymptomClick ==
    /\ suggestions = << >>
    /\ \E i \in 1..Len(quick_symptoms) : send_message(QuickText(quick_symptoms[i]))

\* NewConversationClick with the session state dropped before the request
NewConversationClick_DiscardsFirst ==
    /\ Begin("create_session", "")
    /\ requests' = <<SessionRequest>>
    /\ pc' = "cs_wait"
    /\ session_id' = None
    /\ messages' = << >>
    /\ suggestions' = << >>
    /\ UNCHANGED <<succ, clean>>

\* "Start New Conversation" is pressed: create_session posts to /session
NewConversationClick ==
    /\ Begin("create_session", "")
    /\ requests' = <<SessionRequest>>
    /\ pc' = "cs_wait"
    /\ UNCHANGED <<session_id, messages, suggestions, succ, clean>>

\* create_session's request settles and create_session runs to its end; the
\* button's callback ends there (st.rerun), send_message goes on to line 75
CreateSessionReturn ==
    \E resp \in SessionResponses :
        LET s == CreateSessionState(
                     [session_id |-> session_id, messages |-> messages,
                      suggestions |-> suggestions], resp)
            raised == CreateSessionFault(resp)
        IN  /\ pc = "cs_wait"
            /\ csOut' = resp
            /\ session_id' = s.session_id
            /\ messages' = s.messages
            /\ suggestions' = s.suggestions
            /\ errors' = errors \o CreateSessionErrors(resp)
            /\ fault' = raised
            /\ IF call.op = "send_message" /\ raised = ""
               THEN /\ pc' = "sm_check"
                    /\ UNCHANGED <<succ, clean>>
               ELSE /\ pc' = "idle"
                    /\ Finish(s.messages, FALSE)
            /\ UNCHANGED <<call, requests, pre, chatOut, prev>>

\* lines 74-76: after the sleep, send_message returns if there is still no
\* session
SendCheck ==
    /\ pc = "sm_check"
    /\ IF AbortsAfterCreate(session_id)
       THEN /\ pc' = "idle"
            /\ Finish(messages, FALSE)
       ELSE /\ pc' = "sm_append"
            /\ UNCHANGED <<succ, clean>>
    /\ UNCHANGED <<session_id, messages, suggestions, call, requests, errors, fault,
                   pre, csOut, chatOut, prev>>

\* line 79: the user's message is added to the log
AppendUser ==
    /\ pc = "sm_append"
    /\ messages' = WithUserMessage(messages, call.message)
    /\ pc' = "sm_post"
    /\ UNCHANGED <<session_id, suggestions, call, requests, errors, fault,
                   pre, csOut, chatOut, succ, clean, prev>>

\* lines 82-83: the message is posted to /chat
PostChat ==
    /\ pc = "sm_post"
    /\ requests' = Append(requests, ChatRequest(call.message, session_id))
    /\ pc' = "chat_wait"
    /\ UNCHANGED <<session_id, messages, suggestions, call, errors, fault,
                   pre, csOut, chatOut, succ, clean, prev>>

\* the /chat request settles and send_message runs to its end
ChatReturn ==
    \E resp \in ChatResponses :
        /\ pc = "chat_wait"
        /\ chatOut' = resp
        /\ messages' = messages \o ChatAppended(resp)
        /\ suggestions' = ChatSuggestions(suggestions, resp)
        /\ errors' = errors \o ChatErrors(resp)
        /\ fault' = ChatFault(resp)
        /\ pc' = "idle"
        /\ Finish(messages', ChatSucceeded(resp))
        /\ UNCHANGED <<session_id, call, requests, pre, csOut, prev>>

Next ==
    \/ FormSubmit
    \/ SuggestionClick
    \/ QuickSymptomClick
    \/ NewConversationClick
    \/ CreateSessionReturn
    \/ SendCheck
    \/ AppendUser
    \/ PostChat
    \/ ChatReturn

Spec == Init /\ [][Next]_vars

\* the steps of a running callback: the script thread runs it to its end,
\* its requests returning
CallbackStep == CreateSessionReturn \/ SendCheck \/ AppendUser \/ PostChat \/ ChatReturn

FairSpec == Spec /\ WF_vars(CallbackStep)

-----------------------------------------------------------------------------
(* Properties *)

\* the callback op has run to its end
Ended(op) == pc = "idle" /\ call.op = op

\* create_session was called in this callback and its request failed
CreateFailed == csOut # NotCalled /\ ~CreateSucceeded(csOut)

\* the /chat request was made in this callback and failed
ChatFailed == chatOut # NotCalled /\ ~ChatSucceeded(chatOut)

Now == [session_id |-> session_id, messages |-> messages, suggestions |-> suggestions]

\* C1: in every reachable state, if there is no session id (None, or a
\* falsy id) the message log and the suggestion list are empty.
C1_AbsentSessionEmptyChat ==
    ~Truthy(session_id) => messages = << >> /\ suggestions = << >>

\* a conversation with history was replaced by a session without an id
C1_Witness ==
    /\ pc = "idle"
    /\ ~Truthy(session_id)
    /\ pre.messages # << >>
    /\ pre.suggestions # << >>

\* C2: a send_message whose exchange succeeds (after a successful
\* create_session, or with a session present) leaves the previous log
\* followed by the user's text and the reply, and exactly the returned
\* suggestions.
C2_SuccessfulSend ==
    (Ended("send_message") /\ ChatSucceeded(chatOut))
        => /\ messages = pre.messages \o <<Msg("user", call.message),
                                            Msg("assistant", chatOut.body.response)>>
           /\ suggestions = chatOut.body.suggestions

\* a successful exchange that returned no suggestions while some were shown
C2_Witness ==
    /\ Ended("send_message")
    /\ ChatSucceeded(chatOut)
    /\ pre.messages # << >>
    /\ pre.suggestions # << >>
    /\ chatOut.body.suggestions = << >>

\* C3: after N successful send_message calls from an empty log, with no
\* other operation in between, the log holds 2N entries, the k-th pair being
\* the k-th text as user and the k-th reply as assistant.
C3_AlternatingLog ==
    (pc = "idle" /\ clean)
        => /\ Len(messages) = 2 * Len(succ)
           /\ \A k \in 1..Len(succ) :
                /\ messages[2 * k - 1] = Msg("user", succ[k].message)
                /\ messages[2 * k] = Msg("assistant", succ[k].reply)

\* two successful calls with different texts and different replies
C3_Witness ==
    /\ pc = "idle"
    /\ clean
    /\ Len(succ) = 2
    /\ succ[1].message # succ[2].message
    /\ succ[1].reply # succ[2].reply

\* C4: a send_message without a session whose create_session fails appends
\* nothing, posts nothing to /chat, surfaces an error and leaves no session,
\* an empty log and no suggestions.
C4_AbortOnFailedCreate ==
    (Ended("send_message") /\ CreateFailed)
        => /\ Now = pre
           /\ ~Truthy(session_id)
           /\ messages = << >>
           /\ suggestions = << >>
           /\ \A i \in 1..Len(requests) : requests[i].url # "/chat"
           /\ errors # << >>

\* send_message ended after create_session could not connect
C4_Witness ==
    /\ Ended("send_message")
    /\ CreateFailed
    /\ csOut.exc = "ConnectionError"

\* C5: with a session, an exchange that returns a status other than 200 adds
\* the user's text and the generic error message to the log, keeps the
\* suggestions and surfaces a status error.
C5_RejectedExchange ==
    (Ended("send_message") /\ chatOut.exc = "" /\ chatOut.status # 200)
        => /\ messages = pre.messages \o <<Msg("user", call.message),
                                            Msg("assistant", GenericErrorMsg)>>
           /\ suggestions = pre.suggestions
           /\ errors = <<Err("chat_status", ToString(chatOut.status))>>

\* a 500 in a conversation that shows suggestions
C5_Witness ==
    /\ Ended("send_message")
    /\ chatOut.exc = ""
    /\ chatOut.status = 500
    /\ Truthy(pre.session_id)
    /\ pre.suggestions # << >>

\* C6: an exchange that cannot connect adds the user's text and the
\* "cannot connect" message, which is not the generic one, keeps the
\* suggestions and surfaces a connection error.
C6_UnreachableExchange ==
    (Ended("send_message") /\ chatOut.exc = "ConnectionError")
        => /\ messages = pre.messages \o <<Msg("user", call.message),
                                            Msg("assistant", CannotConnectMsg)>>
           /\ CannotConnectMsg # GenericErrorMsg
           /\ suggestions = pre.suggestions
           /\ errors = <<Err("chat_connection", "")>>

\* the connection failed in a conversation that shows suggestions
C6_Witness ==
    /\ Ended("send_message")
    /\ chatOut.exc = "ConnectionError"
    /\ pre.messages # << >>
    /\ pre.suggestions # << >>

\* this callback appended an assistant message that explains a failure
Explained ==
    /\ Len(messages) > Len(pre.messages)
    /\ messages[Len(messages)] \in
           {Msg("assistant", GenericErrorMsg), Msg("assistant", CannotConnectMsg)}

\* C7 as stated: no failure escapes, and every failing path ends with an
\* assistant message explaining the failure and an error notification.
C7_Original ==
    /\ fault = ""
    /\ (pc = "idle" /\ (CreateFailed \/ ChatFailed)) => (Explained /\ errors # << >>)

\* C7, amended: no failure escapes and every failing path surfaces an error
\* notification; an explaining assistant message is appended exactly when
\* the exchange returned a status other than 200 or could not connect.
C7_ErrorsSurfaced ==
    /\ fault = ""
    /\ (pc = "idle" /\ (CreateFailed \/ ChatFailed)) => errors # << >>
    /\ pc = "idle" =>
          (Explained <=> (chatOut # NotCalled
                          /\ \/ chatOut.exc = "ConnectionError"
                             \/ chatOut.exc = "" /\ chatOut.status # 200))

\* an exchange failed with an exception the generic clause caught
C7_Witness ==
    /\ Ended("send_message")
    /\ chatOut # NotCalled
    /\ chatOut.exc = "ChunkedEncodingError"
    /\ errors # << >>
    /\ ~Explained

\* C8: when the create_session called by "Start New Conversation" fails,
\* session id, log and suggestions are what they were before the call.
C8_FailedCreateKeepsState ==
    (Ended("create_session") /\ CreateFailed) => Now = pre

\* a rejected creation in the middle of a conversation
C8_Witness ==
    /\ Ended("create_session")
    /\ CreateFailed
    /\ csOut.exc = ""
    /\ pre.messages # << >>
    /\ pre.suggestions # << >>

\* C9: a reset in the middle of a conversation whose creation succeeds
\* leaves an empty log, no suggestions and the session id the backend
\* returned.
C9_ResetClears ==
    (Ended("create_session") /\ CreateSucceeded(csOut) /\ pre.messages # << >>)
        => /\ messages = << >>
           /\ suggestions = << >>
           /\ session_id = csOut.body.session_id

\* the reset replaced a session id by another one
C9_Witness ==
    /\ Ended("create_session")
    /\ CreateSucceeded(csOut)
    /\ pre.messages # << >>
    /\ pre.suggestions # << >>
    /\ Truthy(pre.session_id)
    /\ Truthy(session_id)
    /\ session_id # pre.session_id

\* C10 as stated: a reset of an active conversation whose session creation
\* fails leaves no session, an empty log and no suggestions.
C10_Original ==
    (Ended("create_session") /\ CreateFailed /\ Truthy(pre.session_id))
        => ~Truthy(session_id) /\ messages = << >> /\ suggestions = << >>

\* C10, amended: a reset discards nothing before its creation request has
\* settled, and nothing at all if the creation fails: an active conversation
\* then keeps its session, log and suggestions.  Only a successful creation
\* discards them.
C10_ResetKeepsStateUntilCreated ==
    /\ (call.op = "create_session" /\ pc = "cs_wait") => Now = pre
    /\ (Ended("create_session") /\ CreateFailed /\ Truthy(pre.session_id))
          => (Now = pre /\ Truthy(session_id))
    /\ (Ended("create_session") /\ Now # pre) => CreateSucceeded(csOut)

\* a reset that could not connect in the middle of a conversation
C10_Witness ==
    /\ Ended("create_session")
    /\ CreateFailed
    /\ csOut.exc = "ConnectionError"
    /\ Truthy(pre.session_id)
    /\ pre.messages # << >>
    /\ messages # << >>

-----------------------------------------------------------------------------
(* Properties of the second part *)

IsPrefix(a, b) == Len(a) <= Len(b) /\ SubSeq(b, 1, Len(a)) = a

\* create_session stored an id that counts as a session
CreatedSession(resp) == CreateSucceeded(resp) /\ Truthy(resp.body.session_id)

\* text.strip() == ""
IsBlank(text) == text \in {"", " "}

\* C11: two resets in a row whose creations both succeed leave what one
\* leaves: the returned session id, an empty log and no suggestions; the
\* second changes nothing but the session id.
C11_ResetIdempotent ==
    (Ended("create_session") /\ CreateSucceeded(csOut))
        => /\ session_id = csOut.body.session_id
           /\ Truthy(csOut.body.session_id) => Truthy(session_id)
           /\ messages = << >>
           /\ suggestions = << >>
           /\ (prev.op = "create_session" /\ prev.created)
                 => (messages = pre.messages /\ suggestions = pre.suggestions)

\* a second successful reset that replaced the first one's session id
C11_Witness ==
    /\ Ended("create_session")
    /\ CreatedSession(csOut)
    /\ prev.op = "create_session"
    /\ prev.created
    /\ Truthy(pre.session_id)
    /\ session_id # pre.session_id

\* C12: one send_message posts to /session at most once, and only if there
\* was no session at entry, posts to /chat at most once and after that,
\* never posts to /chat without a session, and posts nothing after a failed
\* creation.
C12_OneShotCreate ==
    call.op = "send_message"
        => /\ requests \in {<< >>, <<SessionRequest>>,
                            <<ChatRequest(call.message, session_id)>>,
                            <<SessionRequest, ChatRequest(call.message, session_id)>>}
           /\ (requests # << >> /\ requests[1] = SessionRequest) <=> ~Truthy(pre.session_id)
           /\ csOut # NotCalled => ~Truthy(pre.session_id)
           /\ \A i \in 1..Len(requests) :
                 requests[i].url = "/chat"
                    => Truthy(requests[i].session_id) /\ Truthy(session_id)
           /\ CreateFailed => requests = <<SessionRequest>>

\* a send_message that created its session and then posted the message
C12_Witness ==
    /\ Ended("send_message")
    /\ requests = <<SessionRequest, ChatRequest(call.message, session_id)>>

\* C13: unless the callback created a session, the log it started with is a
\* prefix of the log at every later point of it.
C13_AppendOnly ==
    (csOut = NotCalled \/ ~CreateSucceeded(csOut)) => IsPrefix(pre.messages, messages)

\* a failed exchange added to a log that was not empty
C13_Witness ==
    /\ Ended("send_message")
    /\ ChatFailed
    /\ pre.messages # << >>
    /\ Len(messages) > Len(pre.messages)

\* C14: a send_message entered with a session keeps that session id at every
\* point and whatever the exchange does.
C14_SendKeepsSession ==
    (call.op = "send_message" /\ Truthy(pre.session_id))
        => (session_id = pre.session_id /\ csOut = NotCalled)

\* an exchange that raised another exception than ConnectionError
C14_Witness ==
    /\ Ended("send_message")
    /\ Truthy(pre.session_id)
    /\ chatOut # NotCalled
    /\ chatOut.exc = "ChunkedEncodingError"

\* the log is user, assistant, user, assistant, ...
Alternates(log) ==
    /\ Len(log) % 2 = 0
    /\ \A i \in 1..Len(log) : log[i].role = (IF i % 2 = 1 THEN "user" ELSE "assistant")

\* C15 as stated: the user's message is in the log when /chat is posted, a
\* settled exchange has added exactly one assistant message after it, and
\* with no callback running the log has even length and alternates.
C15_Original ==
    /\ (call.op = "send_message" /\ pc = "chat_wait")
          => messages = pre.messages \o <<Msg("user", call.message)>>
    /\ (Ended("send_message") /\ chatOut # NotCalled)
          => /\ Len(messages) = Len(pre.messages) + 2
             /\ messages[Len(messages) - 1] = Msg("user", call.message)
             /\ messages[Len(messages)].role = "assistant"
    /\ pc = "idle" => Alternates(messages)

\* this exchange's reply is the last entry of the log
ReplyAppended ==
    /\ Len(messages) = Len(pre.messages) + 2
    /\ messages[Len(messages)] = Msg("assistant", chatOut.body.response)

\* C16 as stated: after an exchange that returned 200, the reply is in the
\* log and the suggestions are the returned ones, or neither was changed.
C16_Original ==
    (Ended("send_message") /\ chatOut # NotCalled /\ chatOut.exc = "" /\ chatOut.status = 200)
        => \/ /\ ReplyAppended
              /\ chatOut.body.has_suggestions
              /\ suggestions = chatOut.body.suggestions
           \/ /\ messages = pre.messages \o <<Msg("user", call.message)>>
              /\ suggestions = pre.suggestions

\* C17 as stated: send_message is never called with an empty or
\* whitespace-only text, and no user entry of the log is one.
C17_Original ==
    /\ call.op = "send_message" => ~IsBlank(call.message)
    /\ \A i \in 1..Len(messages) : messages[i].role = "user" => ~IsBlank(messages[i].content)

\* every request of this callback succeeded
AllSucceeded ==
    /\ csOut = NotCalled \/ CreatedSession(csOut)
    /\ chatOut = NotCalled \/ ChatSucceeded(chatOut)

\* C18: whatever failed before, a send_message whose requests all succeed
\* reaches the exchange, keeps the session and adds the text and the reply;
\* a started callback always has a next step and reaches its end, and with
\* none running a new one can be started.
C18_NoStickyFailure ==
    /\ [](/\ (Ended("send_message") /\ AllSucceeded)
                => /\ chatOut # NotCalled
                   /\ Truthy(session_id)
                   /\ messages = pre.messages \o <<Msg("user", call.message),
                                                    Msg("assistant", chatOut.body.response)>>
          /\ pc # "idle" => ENABLED CallbackStep
          /\ pc = "idle" => ENABLED NewConversationClick
          /\ (pc = "idle" /\ Len(messages) + 2 <= MaxLog) => ENABLED FormSubmit)
    /\ [](pc # "idle" => <>(pc = "idle"))

\* a send_message that succeeded right after a callback that failed
C18_Witness ==
    /\ Ended("send_message")
    /\ AllSucceeded
    /\ chatOut # NotCalled
    /\ prev.failed
    /\ pre.messages # << >>

\* C19 as stated: a send_message that returns without adding the user's
\* message has surfaced an error.
C19_Original ==
    (Ended("send_message") /\ Len(messages) <= Len(pre.messages)) => errors # << >>

====
